---- MODULE Spec2Model ----
(***************************************************************************)
(* A model of src/traning/hantei.js: rectangle colliders, actors that move *)
(* and bounce off the world's edges, the brute-force collision detector    *)
(* and the World that updates, sweeps and renders its actors.              *)
(*                                                                         *)
(* JavaScript objects are records held in `heap` under an object id; the   *)
(* World's array `_actors` holds ids, so the same object may be in the     *)
(* array more than once.  A number is a floating-point number whose        *)
(* significand has Precision bits, and + rounds its sum to the nearest     *)
(* such number, as the + of JavaScript does with 53 bits.  A thrown        *)
(* TypeError is a value: a call that throws ends there, with the effects   *)
(* it had so far.                                                          *)
(***************************************************************************)
EXTENDS Integers, Sequences, FiniteSets

VARIABLES
    _width,     \* World._width
    _height,    \* World._height
    _actors,    \* World._actors: the sequence of object ids
    heap,       \* object id -> the actor object
    started,    \* whether the frame loop has run World.update() yet
    trace,      \* the calls made by the last World.update(), in order
    thrown,     \* whether the last World.update() ended by a TypeError
    frames,     \* what each World.render() since the last update() drew
    made,       \* object id -> the actor as its constructor returned it
    added,      \* the number of World.addActor calls made
    probe       \* a call of translate on a collider of its own, and its results

vars ==
    <<_width, _height, _actors, heap, started, trace, thrown, frames, made, added, probe>>

(***************************************************************************)
(* Bounds of the model.  The program builds its world and places all of    *)
(* its actors first (lines 208-219) and runs its frame loop after that.    *)
(***************************************************************************)
MaxActors == 3      \* entries of World._actors
WorldWidth == 1     \* new World(WorldWidth, WorldHeight)
WorldHeight == 1
MaxRenders == 2     \* render calls recorded between two updates

Precision == 4      \* bits of a number's significand (53 in JavaScript)

worldSize == 500    \* const worldSize of the program

\* The arguments of new RectangleActor(x, y, width, height) and the two
\* velocities its constructor draws, <<x, y, width, height, vx, vy>>.
Placements ==
    { <<0, 0, 1, 1, 1, 0>>,
      <<1, 1, 1, 1, -1, -1>>,
      <<1, 0, 2, 2, 0, 1>>,
      <<-1, 0, 1, 1, -3, 0>> }

\* The same, and two calls that ask for a negative width or height.
AnySizePlacements ==
    Placements \cup { <<0, 0, -1, 1, 1, 0>>, <<1, 0, 1, -2, 0, 1>> }

(***************************************************************************)
(* Numbers.  The integers below 2^Precision in magnitude are numbers, and  *)
(* above that only every second, fourth, ... integer is: fl(n) is the      *)
(* number nearest to n, the one with the even significand when n is        *)
(* halfway between two.  a + b of the source is add(a, b).                 *)
(***************************************************************************)
abs(n) == IF n < 0 THEN -n ELSE n

\* Below Radix in magnitude every integer is a number.
Radix == 2 ^ Precision

\* The distance between neighbouring numbers at magnitude m >= 0.
RECURSIVE ulp(_)
ulp(m) == IF m < Radix THEN 1 ELSE 2 * ulp(m \div 2)

fl(n) ==
    IF -Radix < n /\ n < Radix THEN n
    ELSE LET m == abs(n)
             u == ulp(m)
             q == m \div u
             r == m % u
             up == 2 * r > u \/ (2 * r = u /\ q % 2 = 1)
             v == IF up THEN (q + 1) * u ELSE q * u
         IN  IF n < 0 THEN -v ELSE v

add(a, b) == fl(a + b)

(***************************************************************************)
(* Collider and RectangleCollider.                                         *)
(***************************************************************************)
null == [type |-> "null"]
TypeError == [type |-> "TypeError"]

Collider(type, x, y) == [type |-> type, x |-> x, y |-> y]

RectangleCollider(x, y, width, height) ==
    [type |-> "rectangle", x |-> x, y |-> y, width |-> width, height |-> height]

\* A collider of another kind: a subclass of Collider that has a translate
\* of its own.  The source has none; this is the extension the type tag is for.
OtherCollider_translate(c, dx, dy) == Collider(c.type, add(c.x, dx), add(c.y, dy))

\* Mutant: the collider is put at (dx, dy) instead of moved by it.
translate_absolute(c, dx, dy) ==
    IF c.type = "rectangle"
    THEN RectangleCollider(dx, dy, c.width, c.height)
    ELSE Collider(c.type, dx, dy)

translate(c, dx, dy) ==
    IF c.type = "rectangle"
    THEN RectangleCollider(add(c.x, dx), add(c.y, dy), c.width, c.height)
    ELSE OtherCollider_translate(c, dx, dy)

\* Mutant: translate moves the collider it is called on, and returns it.
translated_inPlace(c, dx, dy) == translate(c, dx, dy)

\* The collider translate was called on, after the call: translate assigns
\* to no field of `this`.
translated(c, dx, dy) == c

top(c) == c.y
bottom(c) == add(c.y, c.height)
left(c) == c.x
right(c) == add(c.x, c.width)

(***************************************************************************)
(* Actor and RectangleActor.                                               *)
(***************************************************************************)
Black == "rgb(0, 0, 0)"
Red == "rgb(255, 0, 0)"

Actor(collider) == [cls |-> "Actor", x |-> 0, y |-> 0, _collider |-> collider]

\* vx and vy stand for the two Math.random() draws of the constructor.
RectangleActor(x, y, width, height, vx, vy) ==
    [cls |-> "RectangleActor", x |-> x, y |-> y,
     _collider |-> RectangleCollider(0, 0, width, height),
     width |-> width, height |-> height,
     _color |-> Black, _vx |-> vx, _vy |-> vy]

\* Mutant: the collider is handed out as it is, in the actor's own space.
globalCollider_local(a) ==
    IF a._collider = null THEN TypeError ELSE a._collider

\* Mutant: an actor without a collider yields an empty rectangle at its place.
globalCollider_lenient(a) ==
    IF a._collider = null THEN RectangleCollider(a.x, a.y, 0, 0)
    ELSE translate(a._collider, a.x, a.y)

globalCollider(a) ==
    IF a._collider = null THEN TypeError
    ELSE translate(a._collider, a.x, a.y)

\* The actor after its globalCollider was read.
afterGlobalCollider(a) ==
    IF a._collider = null THEN a
    ELSE [a EXCEPT !._collider = translated(a._collider, a.x, a.y)]

\* Mutant: the edge test looks at the position before the move.
RectangleActor_update_testFirst(a, info) ==
    LET vx == IF a.x < 0 \/ a.x > info.width THEN -a._vx ELSE a._vx
        vy == IF a.y < 0 \/ a.y > info.height THEN -a._vy ELSE a._vy
    IN  [a EXCEPT !._color = Black, !.x = add(a.x, a._vx), !.y = add(a.y, a._vy),
                  !._vx = vx, !._vy = vy]

\* Mutant: an actor that has left the world stops on that axis.
RectangleActor_update_stop(a, info) ==
    LET moved == [a EXCEPT !._color = Black, !.x = add(a.x, a._vx), !.y = add(a.y, a._vy)]
        flipX == [moved EXCEPT !._vx =
                    IF moved.x < 0 \/ moved.x > info.width THEN 0 ELSE moved._vx]
    IN  [flipX EXCEPT !._vy =
            IF flipX.y < 0 \/ flipX.y > info.height THEN 0 ELSE flipX._vy]

\* Mutant: the edge test looks at the low edges only.
RectangleActor_update_lowEdge(a, info) ==
    LET moved == [a EXCEPT !._color = Black, !.x = add(a.x, a._vx), !.y = add(a.y, a._vy)]
        flipX == [moved EXCEPT !._vx = IF moved.x < 0 THEN -moved._vx ELSE moved._vx]
    IN  [flipX EXCEPT !._vy = IF flipX.y < 0 THEN -flipX._vy ELSE flipX._vy]

\* Mutant: update leaves the colour as the last frame set it.
RectangleActor_update_keepColor(a, info) ==
    LET moved == [a EXCEPT !.x = add(a.x, a._vx), !.y = add(a.y, a._vy)]
        flipX == [moved EXCEPT !._vx =
                    IF moved.x < 0 \/ moved.x > info.width THEN -moved._vx ELSE moved._vx]
    IN  [flipX EXCEPT !._vy =
            IF flipX.y < 0 \/ flipX.y > info.height THEN -flipX._vy ELSE flipX._vy]

RectangleActor_update(a, info) ==
    LET moved == [a EXCEPT !._color = Black, !.x = add(a.x, a._vx), !.y = add(a.y, a._vy)]
        flipX == [moved EXCEPT !._vx =
                    IF moved.x < 0 \/ moved.x > info.width THEN -moved._vx ELSE moved._vx]
    IN  [flipX EXCEPT !._vy =
            IF flipX.y < 0 \/ flipX.y > info.height THEN -flipX._vy ELSE flipX._vy]

update(a, info) ==
    IF a.cls = "RectangleActor" THEN RectangleActor_update(a, info) ELSE a

\* Mutant: update leaves the actor's position in the info object as the
\* world's size.
updateInfo_written(a, info) ==
    IF a.cls = "RectangleActor" THEN [width |-> a.x, height |-> a.y] ELSE info

\* The info object after a.update(info): update assigns to no field of it.
updateInfo(a, info) == info

\* Mutant: an actor that is hit turns round.
RectangleActor_hit_turn(a, other) ==
    [a EXCEPT !._color = Red, !._vx = -a._vx, !._vy = -a._vy]

RectangleActor_hit(a, other) == [a EXCEPT !._color = Red]

hit(a, other) ==
    IF a.cls = "RectangleActor" THEN RectangleActor_hit(a, other) ELSE a

\* Mutant: drawing an actor puts it back in the normal colour.
RectangleActor_render_reset(a) ==
    [self |-> [a EXCEPT !._color = Black],
     drawn |-> <<[fillStyle |-> a._color, x |-> a.x, y |-> a.y,
                  width |-> a.width, height |-> a.height]>>]

\* render(context): the actor after the call, and the fillRect commands the
\* call sent to the canvas context, each with the fillStyle it was drawn in.
RectangleActor_render(a) ==
    [self |-> a,
     drawn |-> <<[fillStyle |-> a._color, x |-> a.x, y |-> a.y,
                  width |-> a.width, height |-> a.height]>>]

render(a) ==
    IF a.cls = "RectangleActor" THEN RectangleActor_render(a)
    ELSE [self |-> a, drawn |-> << >>]

(***************************************************************************)
(* CollisionDetector.                                                      *)
(***************************************************************************)
\* Mutant: the horizontal test lets rectangles that share an edge collide.
detectRectangleCollision_nonStrict(rect1, rect2) ==
    LET horizontal == (left(rect2) <= right(rect1)) /\ (left(rect1) <= right(rect2))
        vertical == (top(rect2) < bottom(rect1)) /\ (top(rect1) < bottom(rect2))
    IN  horizontal /\ vertical

\* Mutant: each axis is tested from one side only.
detectRectangleCollision_oneSided(rect1, rect2) ==
    LET horizontal == left(rect2) < right(rect1)
        vertical == top(rect2) < bottom(rect1)
    IN  horizontal /\ vertical

detectRectangleCollision(rect1, rect2) ==
    LET horizontal == (left(rect2) < right(rect1)) /\ (left(rect1) < right(rect2))
        vertical == (top(rect2) < bottom(rect1)) /\ (top(rect1) < bottom(rect2))
    IN  horizontal /\ vertical

\* The result of a call: either it threw, or it returned `value`.
Returned(v) == [threw |-> FALSE, value |-> v]
Threw == [threw |-> TRUE, value |-> FALSE]

\* Mutant: a pair of kinds without a test of its own is an error.
detectCollision_strictKinds(actor1, actor2) ==
    LET c1 == globalCollider(actor1)
        c2 == globalCollider(actor2)
    IN  IF c1 = TypeError THEN Threw
        ELSE IF c2 = TypeError THEN Threw
        ELSE IF c1.type = "rectangle" /\ c2.type = "rectangle"
             THEN Returned(detectRectangleCollision(c1, c2))
             ELSE Threw

detectCollision(actor1, actor2) ==
    LET c1 == globalCollider(actor1)
        c2 == globalCollider(actor2)
    IN  IF c1 = TypeError THEN Threw
        ELSE IF c2 = TypeError THEN Threw
        ELSE IF c1.type = "rectangle" /\ c2.type = "rectangle"
             THEN Returned(detectRectangleCollision(c1, c2))
             ELSE Returned(FALSE)

\* The colliders a detectCollision call read, for the record of the call.
NotRead == [type |-> "not read"]
collidersRead(actor1, actor2) ==
    LET c1 == globalCollider(actor1)
    IN  [c1 |-> c1, c2 |-> IF c1 = TypeError THEN NotRead ELSE globalCollider(actor2)]

(***************************************************************************)
(* World.                                                                  *)
(***************************************************************************)
\* this._actors.forEach((a) => a.update(info)), from the k-th entry on.
RECURSIVE updateEach(_, _, _, _, _)
updateEach(acts, h, ev, info, k) ==
    IF k > Len(acts) THEN [heap |-> h, trace |-> ev]
    ELSE LET id == acts[k]
             after == update(h[id], info)
         IN  updateEach(acts, [h EXCEPT ![id] = after],
                        Append(ev, [op |-> "update", id |-> id,
                                    before |-> h[id], after |-> after]),
                        updateInfo(h[id], info), k + 1)

outerContinues(i, length) == i < length - 1

\* Mutant: the inner loop starts at the outer index itself.
innerStart_self(i) == i

innerStart(i) == i + 1
innerContinues(j, length) == j < length

\* Mutant: only the first actor of the pair is told of the collision.
hitBoth_firstOnly(h, a1, a2) ==
    [heap |-> [h EXCEPT ![a1] = hit(h[a1], h[a2])],
     calls |-> <<[op |-> "hit", self |-> a1, other |-> a2]>>]

\* if (hit) { a1.hit(a2); a2.hit(a1); } on the objects a1 and a2.
hitBoth(h, a1, a2) ==
    LET h1 == [h EXCEPT ![a1] = hit(h[a1], h[a2])]
        h2 == [h1 EXCEPT ![a2] = hit(h1[a2], h1[a1])]
    IN  [heap |-> h2,
         calls |-> <<[op |-> "hit", self |-> a1, other |-> a2],
                     [op |-> "hit", self |-> a2, other |-> a1]>>]

\* The two loops of _hitTest, at (i, j), indices from 0 as in the source.
RECURSIVE hitTestFrom(_, _, _, _, _)
hitTestFrom(acts, h, ev, i, j) ==
    LET length == Len(acts) IN
    IF ~outerContinues(i, length) THEN [heap |-> h, trace |-> ev, thrown |-> FALSE]
    ELSE IF ~innerContinues(j, length) THEN hitTestFrom(acts, h, ev, i + 1, innerStart(i + 1))
    ELSE LET a1 == acts[i + 1]
             a2 == acts[j + 1]
             res == detectCollision(h[a1], h[a2])
             read == collidersRead(h[a1], h[a2])
             call == [op |-> "detect", i |-> i, j |-> j, a1 |-> a1, a2 |-> a2,
                      c1 |-> read.c1, c2 |-> read.c2,
                      threw |-> res.threw, hit |-> res.value]
             h1 == [h EXCEPT ![a1] = afterGlobalCollider(h[a1])]
             hr == IF read.c2 = NotRead THEN h1
                   ELSE [h1 EXCEPT ![a2] = afterGlobalCollider(h1[a2])]
         IN  IF res.threw
             THEN [heap |-> hr, trace |-> Append(ev, call), thrown |-> TRUE]
             ELSE IF res.value
             THEN LET both == hitBoth(hr, a1, a2)
                  IN  hitTestFrom(acts, both.heap, Append(ev, call) \o both.calls, i, j + 1)
             ELSE hitTestFrom(acts, hr, Append(ev, call), i, j + 1)

_hitTest(acts, h, ev) == hitTestFrom(acts, h, ev, 0, innerStart(0))

\* Mutant: the sweep runs before the actors move.
World_update_sweepFirst(acts, h, info) ==
    LET swept == _hitTest(acts, h, << >>)
        upd == updateEach(acts, swept.heap, swept.trace, info, 1)
    IN  IF swept.thrown THEN swept
        ELSE [heap |-> upd.heap, trace |-> upd.trace, thrown |-> FALSE]

World_update(acts, h, info) ==
    LET upd == updateEach(acts, h, << >>, info, 1)
    IN  _hitTest(acts, upd.heap, upd.trace)

\* Mutant: an actor that is in the array already is not added again.
addActor_unique(acts, actor) ==
    IF \E k \in 1 .. Len(acts) : acts[k] = actor THEN acts ELSE Append(acts, actor)

addActor(acts, actor) == Append(acts, actor)

\* this._actors.forEach((a) => a.render(context)), from the k-th entry on.
RECURSIVE renderEach(_, _, _, _)
renderEach(acts, h, drawn, k) ==
    IF k > Len(acts) THEN [heap |-> h, drawn |-> drawn]
    ELSE LET r == render(h[acts[k]])
         IN  renderEach(acts, [h EXCEPT ![acts[k]] = r.self], drawn \o r.drawn, k + 1)

World_render(acts, h) == renderEach(acts, h, << >>, 1)

(***************************************************************************)
(* The state machine: the program's setup and its frame driver.            *)
(***************************************************************************)
Ids == 1 .. MaxActors
NoObject == [cls |-> "none"]
NoCall == [stage |-> "none"]

Init ==
    /\ _width = WorldWidth
    /\ _height = WorldHeight
    /\ _actors = << >>
    /\ heap = [id \in Ids |-> NoObject]
    /\ started = FALSE
    /\ trace = << >>
    /\ thrown = FALSE
    /\ frames = << >>
    /\ made = [id \in Ids |-> NoObject]
    /\ added = 0
    /\ probe = NoCall

Allocated == {id \in Ids : heap[id] # NoObject}
Fresh == Cardinality(Allocated) + 1

\* const rect = new RectangleActor(x, y, w, h); world.addActor(rect);
\* the program places its actors before the first frame.
PlaceRectangleActor ==
    /\ ~started
    /\ Len(_actors) < MaxActors
    /\ \E p \in Placements :
          /\ heap' = [heap EXCEPT ![Fresh] = RectangleActor(p[1], p[2], p[3], p[4], p[5], p[6])]
          /\ made' = [made EXCEPT ![Fresh] = RectangleActor(p[1], p[2], p[3], p[4], p[5], p[6])]
          /\ _actors' = addActor(_actors, Fresh)
          /\ added' = added + 1
    /\ UNCHANGED <<_width, _height, started, trace, thrown, frames, probe>>

\* world.addActor(new Actor(option)), option.collider null by default.
PlaceActor ==
    /\ ~started
    /\ Len(_actors) < MaxActors
    /\ \E c \in {null, Collider("circle", 0, 0)} :
          /\ heap' = [heap EXCEPT ![Fresh] = Actor(c)]
          /\ made' = [made EXCEPT ![Fresh] = Actor(c)]
          /\ _actors' = addActor(_actors, Fresh)
          /\ added' = added + 1
    /\ UNCHANGED <<_width, _height, started, trace, thrown, frames, probe>>

\* world.addActor(a) with an actor that is in the world already.
AddActorAgain ==
    /\ ~started
    /\ Len(_actors) < MaxActors
    /\ \E id \in Allocated : _actors' = addActor(_actors, id)
    /\ added' = added + 1
    /\ UNCHANGED <<_width, _height, heap, started, trace, thrown, frames, made, probe>>

\* world.update() of the frame loop.
Update ==
    /\ _actors # << >>
    /\ \E r \in {World_update(_actors, heap, [width |-> _width, height |-> _height])} :
          /\ heap' = r.heap
          /\ trace' = r.trace
          /\ thrown' = r.thrown
    /\ started' = TRUE
    /\ frames' = << >>
    /\ UNCHANGED <<_width, _height, _actors, made, added, probe>>

\* world.render(context) of the frame loop, after context.clearRect.
Render ==
    /\ _actors # << >>
    /\ Len(frames) < MaxRenders
    /\ \E r \in {World_render(_actors, heap)} :
          /\ heap' = r.heap
          /\ frames' = Append(frames, [n |-> Len(_actors), drawn |-> r.drawn])
    /\ UNCHANGED <<_width, _height, _actors, started, trace, thrown, made, added, probe>>

Next ==
    \/ PlaceRectangleActor
    \/ PlaceActor
    \/ AddActorAgain
    \/ Update
    \/ Render

Spec == Init /\ [][Next]_vars

\* The same program, with constructor calls of any width and height.
PlaceRectangleActorAnySize ==
    /\ ~started
    /\ Len(_actors) < MaxActors
    /\ \E p \in AnySizePlacements :
          /\ heap' = [heap EXCEPT ![Fresh] = RectangleActor(p[1], p[2], p[3], p[4], p[5], p[6])]
          /\ made' = [made EXCEPT ![Fresh] = RectangleActor(p[1], p[2], p[3], p[4], p[5], p[6])]
          /\ _actors' = addActor(_actors, Fresh)
          /\ added' = added + 1
    /\ UNCHANGED <<_width, _height, started, trace, thrown, frames, probe>>

NextAnySize ==
    \/ PlaceRectangleActorAnySize
    \/ PlaceActor
    \/ AddActorAgain
    \/ Update
    \/ Render

SpecAnySize == Init /\ [][NextAnySize]_vars

\* The program without its drawing: the setup, and the update() calls of
\* the frame loop.
NextFrames ==
    \/ PlaceRectangleActor
    \/ PlaceActor
    \/ AddActorAgain
    \/ Update

SpecFrames == Init /\ [][NextFrames]_vars

(***************************************************************************)
(* RectangleCollider.translate on its own: a collider `box` is translated  *)
(* by (a, b) and the result by (c, d), and `box` is translated by          *)
(* (a + c, b + d).  The world stays as it was built, without actors.       *)
(***************************************************************************)
\* Coordinates and offsets: small ones, and ones where numbers lie 2 apart.
Coordinates == {0, 3, Radix, -Radix}
Offsets == {-1, 0, 1, 2}
Sizes == {0, 2}

TranslateCalls ==
    { [stage |-> "ready", box |-> RectangleCollider(x, y, w, w), a |-> a, b |-> b, c |-> c, d |-> d] :
        x \in Coordinates, y \in {0, Radix}, w \in Sizes,
        a \in Offsets, b \in {0, 1}, c \in Offsets, d \in {0, 1} }

InitTranslate ==
    /\ _width = WorldWidth
    /\ _height = WorldHeight
    /\ _actors = << >>
    /\ heap = [id \in Ids |-> NoObject]
    /\ started = FALSE
    /\ trace = << >>
    /\ thrown = FALSE
    /\ frames = << >>
    /\ made = [id \in Ids |-> NoObject]
    /\ added = 0
    /\ probe \in TranslateCalls

TranslateTwice ==
    /\ probe.stage = "ready"
    /\ probe' = [stage |-> "done", box |-> probe.box,
                a |-> probe.a, b |-> probe.b, c |-> probe.c, d |-> probe.d,
                first |-> translate(probe.box, probe.a, probe.b),
                twice |-> translate(translate(probe.box, probe.a, probe.b), probe.c, probe.d),
                once |-> translate(probe.box, add(probe.a, probe.c), add(probe.b, probe.d))]
    /\ UNCHANGED <<_width, _height, _actors, heap, started, trace, thrown, frames, made, added>>

NextTranslate == TranslateTwice

SpecTranslate == InitTranslate /\ [][NextTranslate]_vars

(***************************************************************************)
(* What the properties below speak of.                                     *)
(***************************************************************************)
\* The objects of the world, and those that are RectangleActors.
InWorld == {_actors[k] : k \in 1 .. Len(_actors)}
RectangleActors == {id \in InWorld : heap[id].cls = "RectangleActor"}
HasCollider == {id \in InWorld : heap[id]._collider # null}

\* The places in the last update()'s trace of each kind of call.
UpdateCalls == {p \in 1 .. Len(trace) : trace[p].op = "update"}
DetectCalls == {p \in 1 .. Len(trace) : trace[p].op = "detect"}
HitCalls == {p \in 1 .. Len(trace) : trace[p].op = "hit"}
RectangleDetects ==
    {p \in DetectCalls : trace[p].c1.type = "rectangle" /\ trace[p].c2.type = "rectangle"}

\* Two boxes given by position and size overlap, every comparison strict.
StrictOverlap(x1, y1, w1, h1, x2, y2, w2, h2) ==
    /\ x2 < x1 + w1
    /\ x1 < x2 + w2
    /\ y2 < y1 + h1
    /\ y1 < y2 + h2

\* The index pairs i < j of a sequence of n entries, from 0 as in the source.
IndexPairs(n) == {<<i, j>> \in (0 .. n - 1) \X (0 .. n - 1) : i < j}

\* The index pairs the last sweep called the detector for.
PairsTested == {<<trace[p].i, trace[p].j>> : p \in DetectCalls}

\* No object is in the sequence twice.
NoDuplicates ==
    \A k \in 1 .. Len(_actors), m \in 1 .. Len(_actors) : _actors[k] = _actors[m] => k = m

\* The record of self.hit(other) in the trace.
HitCall(self, other) == [op |-> "hit", self |-> self, other |-> other]

\* Object `id` as its last update call of the frame left it.
LastMove(id) ==
    LET calls == {k \in UpdateCalls : trace[k].id = id}
    IN  trace[CHOOSE k \in calls : \A m \in calls : m <= k].after

\* Collider c is of the kind of a's collider and lies at a's position.
StandsAt(c, a) ==
    /\ c.type = a._collider.type
    /\ c.x = a.x + a._collider.x
    /\ c.y = a.y + a._collider.y

\* The velocity after the edge test on one axis.
Reflected(v, pos, size) == IF pos < 0 \/ pos > size THEN -v ELSE v

\* `after` is `before` moved by its velocity, then turned at the edges.
MovedThenReflected(before, after, width, height) ==
    /\ after.x = before.x + before._vx
    /\ after.y = before.y + before._vy
    /\ after._vx = Reflected(before._vx, after.x, width)
    /\ after._vy = Reflected(before._vy, after.y, height)
    /\ after.width = before.width
    /\ after.height = before.height

\* The command that draws actor a as it is.
FillRect(a) ==
    [fillStyle |-> a._color, x |-> a.x, y |-> a.y, width |-> a.width, height |-> a.height]

IsRectangleActor(id) == heap[id].cls = "RectangleActor"

\* One command per RectangleActor of the sequence, in sequence order.
ExpectedDrawing ==
    LET rects == SelectSeq(_actors, IsRectangleActor)
    IN  [k \in 1 .. Len(rects) |-> FillRect(heap[rects[k]])]

\* A step that is a World.render() call.
RenderStep == Len(frames') = Len(frames) + 1

BothRectangles(c1, c2) == c1.type = "rectangle" /\ c2.type = "rectangle"

(***************************************************************************)
(* C1: detectRectangleCollision returns true exactly when the four strict  *)
(* comparisons hold: for every two RectangleActors of the world, and for   *)
(* every rectangle pair the last sweep tested, the detector's answer is    *)
(* the strict overlap of the two boxes; boxes that share an edge do not    *)
(* collide, and the three 10x10 examples come out false, true, false.      *)
(***************************************************************************)
C1_StrictOverlap ==
    /\ \A a \in RectangleActors, b \in RectangleActors :
          detectCollision(heap[a], heap[b]) =
              Returned(StrictOverlap(heap[a].x, heap[a].y, heap[a].width, heap[a].height,
                                     heap[b].x, heap[b].y, heap[b].width, heap[b].height))
    /\ \A p \in RectangleDetects :
          LET c1 == trace[p].c1
              c2 == trace[p].c2
          IN  /\ ~trace[p].threw
              /\ trace[p].hit = StrictOverlap(c1.x, c1.y, c1.width, c1.height,
                                              c2.x, c2.y, c2.width, c2.height)
    /\ ~detectRectangleCollision(RectangleCollider(0, 0, 10, 10),
                                 RectangleCollider(10, 0, 10, 10))
    /\ detectRectangleCollision(RectangleCollider(0, 0, 10, 10),
                                RectangleCollider(5, 5, 10, 10))
    /\ ~detectRectangleCollision(RectangleCollider(0, 0, 10, 10),
                                 RectangleCollider(100, 100, 10, 10))

\* A sweep tested two rectangles that share a vertical edge and overlap
\* vertically, and reported no collision.
C1_Witness ==
    \E p \in RectangleDetects :
        LET c1 == trace[p].c1
            c2 == trace[p].c2
        IN  /\ c1.x + c1.width = c2.x \/ c2.x + c2.width = c1.x
            /\ c2.y < c1.y + c1.height
            /\ c1.y < c2.y + c2.height
            /\ ~trace[p].hit

(***************************************************************************)
(* C2: collision detection is symmetric: for every two actors of the       *)
(* world, detectCollision(a, b) and detectCollision(b, a) end the same way *)
(* and return the same boolean.                                            *)
(***************************************************************************)
C2_Symmetric ==
    \A a \in InWorld, b \in InWorld :
        detectCollision(heap[a], heap[b]) = detectCollision(heap[b], heap[a])

\* After a frame, the world holds a pair that collides and a pair that does not.
C2_Witness ==
    /\ started
    /\ \E a \in RectangleActors, b \in RectangleActors :
          a # b /\ detectCollision(heap[a], heap[b]) = Returned(TRUE)
    /\ \E a \in RectangleActors, b \in RectangleActors :
          a # b /\ detectCollision(heap[a], heap[b]) = Returned(FALSE)

(***************************************************************************)
(* C3 as stated: whatever the sequence built by addActor calls, a sweep    *)
(* calls the detector n(n-1)/2 times, once for each index pair i < j, and  *)
(* never with the same actor as both arguments.                            *)
(***************************************************************************)
C3_AnySequence ==
    started =>
        /\ 2 * Cardinality(DetectCalls) = Len(_actors) * (Len(_actors) - 1)
        /\ PairsTested = IndexPairs(Len(_actors))
        /\ \A p \in DetectCalls : trace[p].a1 # trace[p].a2

(***************************************************************************)
(* C3, amended: a sweep tests index pairs i < j only, in the order of the  *)
(* two loops, each at most once, on the actors at these two indices; when  *)
(* every actor of the sequence has a collider it tests all n(n-1)/2 pairs, *)
(* colliding or not; and when no actor is in the sequence twice the two    *)
(* arguments are never the same actor.                                     *)
(***************************************************************************)
C3_Sweep ==
    started =>
        /\ \A p \in DetectCalls :
              /\ 0 <= trace[p].i
              /\ trace[p].i < trace[p].j
              /\ trace[p].j < Len(_actors)
              /\ trace[p].a1 = _actors[trace[p].i + 1]
              /\ trace[p].a2 = _actors[trace[p].j + 1]
        /\ \A p \in DetectCalls, q \in DetectCalls :
              p < q => \/ trace[p].i < trace[q].i
                       \/ trace[p].i = trace[q].i /\ trace[p].j < trace[q].j
        /\ InWorld \subseteq HasCollider =>
              /\ 2 * Cardinality(DetectCalls) = Len(_actors) * (Len(_actors) - 1)
              /\ PairsTested = IndexPairs(Len(_actors))
        /\ NoDuplicates => \A p \in DetectCalls : trace[p].a1 # trace[p].a2

\* A sweep over three different actors that found a collision at its first
\* pair and tested the other two pairs all the same.
C3_Witness ==
    /\ started
    /\ Len(_actors) = 3
    /\ NoDuplicates
    /\ Cardinality(DetectCalls) = 3
    /\ \E p \in DetectCalls : trace[p].i = 0 /\ trace[p].j = 1 /\ trace[p].hit
(***************************************************************************)
(* C4: in the trace of one update(), a detector call that reports an       *)
(* overlap for (bodies[i], bodies[j]) is followed at once by               *)
(* bodies[i].hit(bodies[j]) and then bodies[j].hit(bodies[i]), before the  *)
(* next pair is examined, and both RectangleActors come out of the frame   *)
(* in the collided colour; a call that reports no overlap is followed by   *)
(* no hook, and no hook runs anywhere else.                                *)
(***************************************************************************)
C4_BothHooks ==
    /\ \A p \in DetectCalls :
          IF trace[p].hit
          THEN /\ p + 2 <= Len(trace)
               /\ trace[p + 1] = HitCall(trace[p].a1, trace[p].a2)
               /\ trace[p + 2] = HitCall(trace[p].a2, trace[p].a1)
               /\ p + 3 <= Len(trace) => trace[p + 3].op = "detect"
               /\ \A id \in {trace[p].a1, trace[p].a2} \cap RectangleActors :
                     heap[id]._color = Red
          ELSE p + 1 <= Len(trace) => trace[p + 1].op = "detect"
    /\ \A q \in HitCalls :
          \/ q - 1 \in DetectCalls /\ trace[q - 1].hit
          \/ q - 2 \in DetectCalls /\ trace[q - 2].hit

\* A sweep in which one pair collided and a later pair did not.
C4_Witness ==
    \E p \in DetectCalls, q \in DetectCalls :
        /\ p < q
        /\ trace[p].hit
        /\ trace[p].a1 # trace[p].a2
        /\ ~trace[q].hit
        /\ ~trace[q].threw

(***************************************************************************)
(* C5: within one update(), every actor's update() is done before the      *)
(* first detector call: the trace starts with one update call per entry    *)
(* of the sequence, in sequence order, every detector call comes after     *)
(* them, and the colliders it reads stand where the two actors stand after *)
(* their last move of the frame.                                           *)
(***************************************************************************)
C5_MoveBeforeSweep ==
    started =>
        /\ UpdateCalls = 1 .. Len(_actors)
        /\ \A k \in UpdateCalls : trace[k].id = _actors[k]
        /\ \A p \in DetectCalls :
              /\ \A k \in UpdateCalls : k < p
              /\ trace[p].c1 # TypeError => StandsAt(trace[p].c1, LastMove(trace[p].a1))
              /\ trace[p].c2 \notin {TypeError, NotRead} =>
                    StandsAt(trace[p].c2, LastMove(trace[p].a2))

\* A sweep tested a pair of which both actors had moved in that frame.
C5_Witness ==
    \E p \in DetectCalls, k \in UpdateCalls, m \in UpdateCalls :
        /\ trace[k].id = trace[p].a1
        /\ trace[m].id = trace[p].a2
        /\ k # m
        /\ trace[k].before.x # trace[k].after.x
        /\ trace[m].before.y # trace[m].after.y
        /\ ~trace[p].threw
(***************************************************************************)
(* C6: each RectangleActor.update of the last frame moved first and        *)
(* reflected second: the new position is the old one plus the velocity     *)
(* held before the call, and on each axis by itself the velocity is        *)
(* negated exactly when the new raw position is below 0 or above the       *)
(* world's size on that axis; an actor at x = -1 with vx = -3 in a world   *)
(* 500 wide comes out at x = -4 with vx = +3.                              *)
(***************************************************************************)
C6_MoveThenReflect ==
    /\ \A k \in UpdateCalls :
          trace[k].before.cls = "RectangleActor" =>
              MovedThenReflected(trace[k].before, trace[k].after, _width, _height)
    /\ LET after == update(RectangleActor(-1, 0, 10, 10, -3, 0),
                           [width |-> worldSize, height |-> worldSize])
       IN  after.x = -4 /\ after._vx = 3

\* The frame moved an actor from x = -1 to x = -4 and turned its vx from -3
\* to +3, and turned another actor back at the far edge of the world.
C6_Witness ==
    /\ \E k \in UpdateCalls :
          /\ trace[k].before.x = -1
          /\ trace[k].before._vx = -3
          /\ trace[k].after.x = -4
          /\ trace[k].after._vx = 3
    /\ \E k \in UpdateCalls :
          /\ trace[k].before.cls = "RectangleActor"
          /\ trace[k].after.x > _width
          /\ trace[k].before._vx > 0
          /\ trace[k].after._vx < 0

(***************************************************************************)
(* C7: in every state, the globalCollider of an actor that has a collider  *)
(* is its local collider moved by the actor's present position, of the     *)
(* same kind and size: for a RectangleActor, the rectangle at (x, y) of    *)
(* the actor's width and height; and what the last sweep read were those   *)
(* colliders, not ones of an earlier frame.                                *)
(***************************************************************************)
C7_GlobalCollider ==
    /\ \A id \in HasCollider :
          LET a == heap[id]
              g == globalCollider(a)
          IN  /\ StandsAt(g, a)
              /\ a._collider.type = "rectangle" =>
                    g.width = a._collider.width /\ g.height = a._collider.height
              /\ a.cls = "RectangleActor" =>
                    g = RectangleCollider(a.x, a.y, a.width, a.height)
    /\ \A p \in DetectCalls :
          /\ trace[p].c1 # TypeError => trace[p].c1 = globalCollider(heap[trace[p].a1])
          /\ trace[p].c2 \notin {TypeError, NotRead} =>
                trace[p].c2 = globalCollider(heap[trace[p].a2])

\* After a frame and a render, an actor stands elsewhere than where it was
\* before the frame, and the sweep read its collider at the new place.
C7_Witness ==
    /\ frames # << >>
    /\ \E p \in DetectCalls, k \in UpdateCalls :
          /\ trace[k].id = trace[p].a1
          /\ trace[k].before.x # heap[trace[p].a1].x
          /\ trace[k].before.y # heap[trace[p].a1].y
          /\ trace[p].c1 = RectangleCollider(heap[trace[p].a1].x, heap[trace[p].a1].y,
                                             heap[trace[p].a1].width, heap[trace[p].a1].height)
(***************************************************************************)
(* C8 as stated: two render calls with no update between them draw the     *)
(* same sequence of commands.                                              *)
(***************************************************************************)
C8_NoUpdateBetween ==
    \A k \in 1 .. Len(frames), m \in 1 .. Len(frames) : frames[k].drawn = frames[m].drawn

(***************************************************************************)
(* C8, amended: a render call changes no actor, nor the sequence, nor the  *)
(* world's size; it draws one rectangle per RectangleActor of the          *)
(* sequence, in sequence order, at the actor's present position and size   *)
(* and in its present colour (a plain Actor draws nothing); so two render  *)
(* calls with neither an update nor an addActor between them draw the      *)
(* same sequence of commands.                                              *)
(***************************************************************************)
C8_RenderObserves ==
    /\ [][RenderStep => /\ heap' = heap
                        /\ _actors' = _actors
                        /\ _width' = _width
                        /\ _height' = _height]_vars
    /\ [](\A k \in 1 .. Len(frames) :
             frames[k].n = Len(_actors) => frames[k].drawn = ExpectedDrawing)
    /\ [](\A k \in 1 .. Len(frames), m \in 1 .. Len(frames) :
             frames[k].n = frames[m].n => frames[k].drawn = frames[m].drawn)

\* After a frame, two render calls drew the same two rectangles, one in the
\* collided colour and one in the normal colour.
C8_Witness ==
    /\ started
    /\ Len(frames) = 2
    /\ frames[1].drawn = frames[2].drawn
    /\ \E k \in 1 .. Len(frames[2].drawn), m \in 1 .. Len(frames[2].drawn) :
          /\ k < m
          /\ frames[2].drawn[k].fillStyle = Red
          /\ frames[2].drawn[m].fillStyle = Black

(***************************************************************************)
(* C9: detectCollision on two actors whose global colliders are not both   *)
(* rectangles returns false and throws nothing; in a sweep no hook         *)
(* follows such a call and the sweep goes on to the next pair.             *)
(***************************************************************************)
C9_OtherKindsFalse ==
    /\ \A a \in HasCollider, b \in HasCollider :
          ~BothRectangles(globalCollider(heap[a]), globalCollider(heap[b])) =>
              detectCollision(heap[a], heap[b]) = Returned(FALSE)
    /\ \A p \in DetectCalls :
          (/\ trace[p].c1 # TypeError
           /\ trace[p].c2 \notin {TypeError, NotRead}
           /\ ~BothRectangles(trace[p].c1, trace[p].c2)) =>
              /\ ~trace[p].threw
              /\ ~trace[p].hit
              /\ p + 1 <= Len(trace) => trace[p + 1].op = "detect"
              /\ p = Len(trace) => ~thrown

\* A sweep tested a circle against a rectangle that stood over the circle's
\* place, reported no collision, and went on to another pair.
C9_Witness ==
    \E p \in DetectCalls :
        /\ trace[p].c1.type = "circle"
        /\ trace[p].c2.type = "rectangle"
        /\ trace[p].c2.x <= trace[p].c1.x
        /\ trace[p].c1.x < trace[p].c2.x + trace[p].c2.width
        /\ ~trace[p].threw
        /\ ~trace[p].hit
        /\ p < Len(trace)

(***************************************************************************)
(* C10: reading globalCollider on an actor without a collider throws, and  *)
(* so does every detectCollision call with such an actor on either side;   *)
(* the update() whose sweep makes such a call ends there with the error.   *)
(***************************************************************************)
C10_NoColliderThrows ==
    /\ \A a \in InWorld \ HasCollider :
          /\ globalCollider(heap[a]) = TypeError
          /\ \A b \in InWorld :
                /\ detectCollision(heap[a], heap[b]) = Threw
                /\ detectCollision(heap[b], heap[a]) = Threw
    /\ \A p \in DetectCalls :
          ({trace[p].a1, trace[p].a2} \cap (InWorld \ HasCollider) # {}) =>
              /\ trace[p].threw
              /\ ~trace[p].hit
              /\ TypeError \in {trace[p].c1, trace[p].c2}
              /\ p = Len(trace)
              /\ thrown

\* A sweep tested a RectangleActor against an actor without a collider:
\* the first collider was read, the second read threw, the update ended.
C10_Witness ==
    /\ thrown
    /\ trace # << >>
    /\ trace[Len(trace)].op = "detect"
    /\ trace[Len(trace)].c1.type = "rectangle"
    /\ trace[Len(trace)].c2 = TypeError
    /\ trace[Len(trace)].threw
(***************************************************************************)
(* C11: constructing a RectangleActor or a RectangleCollider with a        *)
(* negative width or height fails, so that no actor and no collider of     *)
(* negative width or height exists in any state.                           *)
(***************************************************************************)
C11_NoNegativeSize ==
    \A id \in Allocated :
        heap[id].cls = "RectangleActor" =>
            /\ heap[id].width >= 0
            /\ heap[id].height >= 0
            /\ heap[id]._collider.width >= 0
            /\ heap[id]._collider.height >= 0
(***************************************************************************)
(* C12: translation composes.  For every rectangle collider box and all    *)
(* offsets a, b, c, d, box.translate(a, b).translate(c, d) has the same    *)
(* x, y, width, height and kind as box.translate(a + c, b + d).            *)
(***************************************************************************)
C12_Composes ==
    probe.stage = "done" => probe.twice = probe.once

\* A sum of the source that fl leaves as it is.
Exact(p, q) == add(p, q) = p + q
ExactSums(p, a, c) ==
    Exact(p, a) /\ Exact(p + a, c) /\ Exact(a, c) /\ Exact(p, a + c)

(***************************************************************************)
(* C12, as the code has it: the two results always have the same kind,     *)
(* width and height, and they have the same x (the same y) whenever none   *)
(* of the sums x + a, (x + a) + c, a + c and x + (a + c) (of y, b and d)   *)
(* is rounded.                                                             *)
(***************************************************************************)
C12_ComposesExactly ==
    probe.stage = "done" =>
        /\ probe.twice.type = probe.once.type
        /\ probe.twice.width = probe.once.width
        /\ probe.twice.height = probe.once.height
        /\ ExactSums(probe.box.x, probe.a, probe.c) =>
              probe.twice.x = probe.once.x /\ probe.once.x = probe.box.x + probe.a + probe.c
        /\ ExactSums(probe.box.y, probe.b, probe.d) =>
              probe.twice.y = probe.once.y /\ probe.once.y = probe.box.y + probe.b + probe.d

C12_Witness ==
    /\ probe.stage = "done"
    /\ probe.a # 0 /\ probe.c # 0 /\ probe.b # 0 /\ probe.d # 0
    /\ probe.box.x # 0
    /\ ExactSums(probe.box.x, probe.a, probe.c)
    /\ ExactSums(probe.box.y, probe.b, probe.d)
    /\ probe.twice = probe.once
    /\ probe.twice # probe.first /\ probe.first # probe.box
\* The collider the sweep read from object `id` is the object's own collider
\* translated by the object's position.
ReadFrom(c, id) ==
    LET own == heap[id]._collider
    IN  /\ c.type = own.type
        /\ c.x = add(own.x, heap[id].x)
        /\ c.y = add(own.y, heap[id].y)
        /\ own.type = "rectangle" => c.width = own.width /\ c.height = own.height

(***************************************************************************)
(* C13: translate(dx, dy) returns a new collider of the same kind at       *)
(* (x + dx, y + dy) with the same width and height, and leaves the         *)
(* collider it is called on as it was: every collider the sweep read is    *)
(* the owner's collider translated by the owner's position, and in every   *)
(* state, however many frames and globalCollider reads have passed, each   *)
(* actor's own collider is the one its constructor made, for a             *)
(* RectangleActor the rectangle at (0, 0) of the actor's width and height. *)
(***************************************************************************)
C13_TranslateIsPure ==
    /\ \A id \in Allocated :
          /\ heap[id]._collider = made[id]._collider
          /\ heap[id].cls = "RectangleActor" =>
                heap[id]._collider =
                    RectangleCollider(0, 0, heap[id].width, heap[id].height)
    /\ \A p \in DetectCalls :
          /\ trace[p].c1 # TypeError => ReadFrom(trace[p].c1, trace[p].a1)
          /\ trace[p].c2 \notin {TypeError, NotRead} => ReadFrom(trace[p].c2, trace[p].a2)

\* An actor that stands away from (0, 0) has had its globalCollider read
\* by two sweeps at least, once as the first and once as the second of a
\* pair in the last one, and a render has followed.
C13_Witness ==
    /\ frames # << >>
    /\ NoDuplicates
    /\ \E id \in RectangleActors :
          /\ heap[id].x # 0 /\ heap[id].y # 0
          /\ heap[id].x # made[id].x
          /\ \E k \in UpdateCalls : trace[k].id = id /\ trace[k].before.x # made[id].x
          /\ \E p \in DetectCalls, q \in DetectCalls :
                /\ trace[p].a1 = id /\ trace[q].a2 = id
                /\ trace[p].c1 = trace[q].c2
                /\ trace[p].c1 = RectangleCollider(heap[id].x, heap[id].y,
                                                   heap[id].width, heap[id].height)
(***************************************************************************)
(* C14: addActor appends its argument at the end of World._actors, also    *)
(* when that object is in the array already: the array has one entry per   *)
(* addActor call made, a step changes it only by putting one object of     *)
(* the heap behind the entries it had, and no step of update() or          *)
(* render() changes it; so entries are never removed or reordered and the  *)
(* length never decreases.  (The model stops adding at MaxActors entries;  *)
(* the source has no limit.)                                               *)
(***************************************************************************)
C14_AppendOnly ==
    /\ [](Len(_actors) = added)
    /\ [][\/ _actors' = _actors
          \/ /\ added' = added + 1
             /\ \E id \in Ids : heap'[id] # NoObject /\ _actors' = Append(_actors, id)]_vars
    /\ [][(trace' # trace \/ frames' # frames \/ started' # started) => _actors' = _actors]_vars
    /\ [][Len(_actors') >= Len(_actors)]_vars

\* An object was added twice, next to another, and frames have run since.
C14_Witness ==
    /\ started /\ frames # << >>
    /\ Len(_actors) = 3
    /\ _actors[1] = _actors[3] /\ _actors[1] # _actors[2]
\* The detector calls of the last sweep that had object `id` on either side
\* and reported an overlap.
OverlapsReported(id) ==
    {p \in DetectCalls : trace[p].hit /\ id \in {trace[p].a1, trace[p].a2}}

\* Object `id` overlaps, where the actors stand now, another entry of the
\* sequence that is a RectangleActor.
OverlapsAnotherEntry(id) ==
    \E k \in 1 .. Len(_actors), m \in 1 .. Len(_actors) :
        /\ k # m
        /\ _actors[k] = id
        /\ _actors[m] \in RectangleActors
        /\ LET a == heap[id]
               b == heap[_actors[m]]
           IN  StrictOverlap(a.x, a.y, a.width, a.height, b.x, b.y, b.width, b.height)

(***************************************************************************)
(* C15: the colour of a RectangleActor after World.update().  Each update  *)
(* call puts the actor in the normal colour before the sweep and each hit  *)
(* call puts it in the collided colour, so in every state a RectangleActor *)
(* of the world is in the collided colour exactly if the detector reported *)
(* an overlap for a pair with that actor in the last sweep; when the sweep *)
(* ran to its end that is exactly if the actor, where it stands after the  *)
(* move, overlaps another entry of the sequence.  However many hit calls   *)
(* it got, the actor is as its last update call left it but for the        *)
(* colour, and a collided colour of the frame before does not outlast a    *)
(* frame without an overlap.                                               *)
(***************************************************************************)
C15_FlagTellsOverlap ==
    \A id \in RectangleActors :
        /\ heap[id]._color \in {Black, Red}
        /\ heap[id]._color = Red <=> OverlapsReported(id) # {}
        /\ (started /\ ~thrown) => (heap[id]._color = Red <=> OverlapsAnotherEntry(id))
        /\ started =>
              heap[id] = [LastMove(id) EXCEPT
                            !._color = IF OverlapsReported(id) # {} THEN Red ELSE Black]

\* After a frame in which the sweep found a colliding pair, an actor that
\* the frame before had left in the collided colour overlaps nothing and is
\* back in the normal colour.
C15_Witness ==
    /\ started /\ ~thrown
    /\ NoDuplicates
    /\ \E id \in RectangleActors : heap[id]._color = Red
    /\ \E id \in RectangleActors :
          /\ heap[id]._color = Black
          /\ ~OverlapsAnotherEntry(id)
          /\ \E k \in UpdateCalls : trace[k].id = id /\ trace[k].before._color = Red
\* The orders in which n calls can be made: order[k] is the index of the
\* entry whose call is the k-th.
Orders ==
    [n \in 0 .. MaxActors |->
        {f \in [1 .. n -> 1 .. n] : \A k \in 1 .. n, m \in 1 .. n : f[k] = f[m] => k = m}]

\* The heap after the update calls of one frame, made in `order`.
RECURSIVE updateInOrder(_, _, _, _, _)
updateInOrder(acts, h, info, order, k) ==
    IF k > Len(acts) THEN h
    ELSE LET id == acts[order[k]]
         IN  updateInOrder(acts, [h EXCEPT ![id] = update(h[id], info)],
                           updateInfo(h[id], info), order, k + 1)

\* The heaps that the update calls of the next frame can leave, over all
\* the orders they can be made in.
MovedInAnyOrder ==
    {updateInOrder(_actors, heap, [width |-> _width, height |-> _height], order, 1) :
        order \in Orders[Len(_actors)]}

\* What the sweep leaves of the actors, from heap h.
Swept(h) ==
    LET swept == _hitTest(_actors, h, << >>)
    IN  [heap |-> swept.heap, thrown |-> swept.thrown]

(***************************************************************************)
(* C16: the order in which World.update() makes the update calls of a      *)
(* frame does not matter.  From every state, whatever the order of the     *)
(* calls, the frame leaves every actor with the position, velocity and     *)
(* (after the sweep) colour that World.update() leaves it with, and ends   *)
(* with an error in the same cases.                                        *)
(***************************************************************************)
C16_OrderIrrelevant ==
    {Swept(h) : h \in MovedInAnyOrder}
        = { [heap |-> r.heap, thrown |-> r.thrown] :
              r \in {World_update(_actors, heap, [width |-> _width, height |-> _height])} }

\* Three actors that differ, all of which the next frame moves, one of them
\* turning at an edge and two of them colliding.
C16_Witness ==
    /\ Len(_actors) = 3 /\ NoDuplicates
    /\ RectangleActors = InWorld
    /\ started
    /\ \E r \in {World_update(_actors, heap, [width |-> _width, height |-> _height])} :
          /\ \A id \in InWorld : r.heap[id].x # heap[id].x \/ r.heap[id].y # heap[id].y
          /\ \E id \in InWorld : r.heap[id]._vx # heap[id]._vx
          /\ \E id \in InWorld : r.heap[id]._color = Red
          /\ \E id \in InWorld : r.heap[id]._color = Black
\* Velocity component `after` is `before`, or `before` negated with the
\* position on that axis outside [0, size].
SameOrTurned(before, after, pos, size) ==
    \/ after = before
    \/ after = -before /\ (pos < 0 \/ pos > size)

(***************************************************************************)
(* C17: a velocity changes only by the negation of one component in the    *)
(* edge test of update.  In every state each RectangleActor has the |_vx|  *)
(* and |_vy| its constructor gave it; every update call of the last frame  *)
(* left each component as it was or negated it with the actor outside the  *)
(* world on that axis; and the velocity is still what the actor's last     *)
(* update call left, whatever hit and render calls came after it.          *)
(***************************************************************************)
C17_SpeedIsKept ==
    /\ \A id \in RectangleActors :
          /\ abs(heap[id]._vx) = abs(made[id]._vx)
          /\ abs(heap[id]._vy) = abs(made[id]._vy)
          /\ started =>
                /\ heap[id]._vx = LastMove(id)._vx
                /\ heap[id]._vy = LastMove(id)._vy
    /\ \A k \in UpdateCalls :
          trace[k].before.cls = "RectangleActor" =>
              /\ SameOrTurned(trace[k].before._vx, trace[k].after._vx, trace[k].after.x, _width)
              /\ SameOrTurned(trace[k].before._vy, trace[k].after._vy, trace[k].after.y, _height)

\* An actor that moves on both axes has turned on both since it was made,
\* on one of them in the last frame; it was hit in that frame and has been
\* drawn since.
C17_Witness ==
    /\ frames # << >>
    /\ NoDuplicates
    /\ \E id \in RectangleActors :
          /\ made[id]._vx # 0 /\ made[id]._vy # 0
          /\ heap[id]._vx = -made[id]._vx
          /\ heap[id]._vy = -made[id]._vy
          /\ heap[id]._color = Red
          /\ \E k \in UpdateCalls :
                trace[k].id = id /\ trace[k].after._vx = -trace[k].before._vx
\* Object `id` was made inside the world, no faster than the world is wide
\* and high.
MadeInside(id) ==
    /\ 0 <= made[id].x /\ made[id].x <= _width
    /\ 0 <= made[id].y /\ made[id].y <= _height
    /\ abs(made[id]._vx) <= _width
    /\ abs(made[id]._vy) <= _height

Within(pos, size) == 0 <= pos /\ pos <= size
WithinOvershoot(pos, v, size) == -abs(v) <= pos /\ pos <= size + abs(v)

\* Object `id` as the frame before the last one left it.
BeforeFrame(id) ==
    LET calls == {k \in UpdateCalls : trace[k].id = id}
    IN  trace[CHOOSE k \in calls : \A m \in calls : k <= m].before

Motion(a) == <<a.x, a.y, a._vx, a._vy>>

\* Actor a after n update calls on it and nothing else.
RECURSIVE updateTimes(_, _, _)
updateTimes(a, info, n) ==
    IF n = 0 THEN a ELSE updateTimes(update(a, info), info, n - 1)

\* The number of entries of the sequence that are object `id`.
Occurrences(id) == Cardinality({k \in 1 .. Len(_actors) : _actors[k] = id})

\* The hit and render calls that followed the last update call on object
\* `id` have changed its colour at most.
OnlyColourSince(id) ==
    heap[id] = [LastMove(id) EXCEPT !._color = heap[id]._color]

(***************************************************************************)
(* C19: collisions never influence motion.  hit changes the colour only,   *)
(* so each frame takes a RectangleActor from the position and velocity the *)
(* frame before left it with to those that one update call on that actor   *)
(* alone gives, whatever else is in the world and whatever collided; the   *)
(* position and velocity after k frames are therefore a function of the    *)
(* initial ones and of the world's width and height alone.                 *)
(***************************************************************************)
C19_MotionIsOwn ==
    \A id \in RectangleActors :
        started =>
            /\ OnlyColourSince(id)
            /\ Motion(heap[id]) =
                  Motion(updateTimes(BeforeFrame(id), [width |-> _width, height |-> _height], 1))

(***************************************************************************)
(* C19, as the code has it: hit changes the colour only, and each frame    *)
(* takes a RectangleActor from the position and velocity the frame before  *)
(* left it with to those that update calls on that actor alone give, one   *)
(* call for each entry of the sequence that is this actor, whatever else   *)
(* is in the world and whatever collided; size and collider stay as made.  *)
(***************************************************************************)
C19_MotionIsOwnPerEntry ==
    \A id \in RectangleActors :
        /\ heap[id].width = made[id].width /\ heap[id].height = made[id].height
        /\ heap[id]._collider = made[id]._collider
        /\ started =>
              /\ OnlyColourSince(id)
              /\ Motion(heap[id]) =
                    Motion(updateTimes(BeforeFrame(id), [width |-> _width, height |-> _height],
                                       Occurrences(id)))

\* Two frames in a row an actor that is in the sequence once collided with
\* one that is in it twice; both moved in the last frame.
C19_Witness ==
    /\ started
    /\ \E id \in RectangleActors, other \in RectangleActors :
          /\ Occurrences(id) = 1 /\ Occurrences(other) = 2
          /\ heap[id]._color = Red /\ BeforeFrame(id)._color = Red
          /\ heap[other]._color = Red /\ BeforeFrame(other)._color = Red
          /\ \E p \in DetectCalls : trace[p].hit /\ {trace[p].a1, trace[p].a2} = {id, other}
          /\ Motion(heap[id]) # Motion(BeforeFrame(id))
          /\ Motion(heap[other]) # Motion(BeforeFrame(other))
====
